---- MODULE Spec2Model ----
(***************************************************************************)
(* Model of the text extraction endpoint src/pages/api/extract-text.js:    *)
(* the rate limiter, the API key check, the intake of the three JSON       *)
(* transports and of the multipart upload, the remote download, the type   *)
(* classifier, the per-type handlers and the response formatting.          *)
(*                                                                         *)
(* Bytes are integers 0..255, a buffer is a sequence of bytes, a decoded   *)
(* text is a sequence of code points, a file name is a sequence of         *)
(* one-character strings.  The numeric settings of CONFIG are scaled down  *)
(* so that their limits are crossed by small inputs.                       *)
(***************************************************************************)
EXTENDS Integers, Sequences, FiniteSets, TLC

(***************************************************************************)
(* CONFIG (scaled) and the bounds of the model                             *)
(***************************************************************************)
RATE_LIMIT_WINDOW_MS == 2000
RATE_LIMIT_MAX_REQUESTS == 2
MAX_FILE_SIZE == 6
MAX_TEXT_LENGTH == 3
PREVIEW_BYTES == 5

MaxTail == 2
MaxPad == 5

ALLOWED_FILE_TYPES ==
  << <<"p","d","f">>, <<"t","x","t">>, <<"h","t","m","l">>, <<"h","t","m">>,
     <<"d","o","c">>, <<"d","o","c","x">> >>

\* the tags of the classifier
TAG_PDF == <<"p","d","f">>
TAG_TEXT == <<"t","e","x","t">>
TAG_TXT == <<"t","x","t">>
TAG_HTML == <<"h","t","m","l">>
TAG_HTM == <<"h","t","m">>
TAG_IMAGE == <<"i","m","a","g","e">>
TAG_DOCUMENT == <<"d","o","c","u","m","e","n","t">>
TAG_UNKNOWN == <<"u","n","k","n","o","w","n">>

\* MAGIC_NUMBERS, as sequences of hexadecimal digits
MAGIC_PNG == <<8, 9, 5, 0, 4, 14, 4, 7>>
MAGIC_JPEG == <<15, 15, 13, 8>>
MAGIC_PDF == <<2, 5, 5, 0, 4, 4, 4, 6>>
MAGIC_DOC == <<13, 0, 12, 15, 1, 1, 14, 0>>
MAGIC_ZIP == <<5, 0, 4, 11, 0, 3, 0, 4>>

(***************************************************************************)
(* Sequences and strings                                                   *)
(***************************************************************************)
Min(a, b) == IF a <= b THEN a ELSE b

\* String.prototype.startsWith
StartsWith(s, p) == Len(s) >= Len(p) /\ SubSeq(s, 1, Len(p)) = p

\* Array.prototype.includes / String.prototype.includes for one element
Includes(s, x) == \E i \in 1..Len(s) : s[i] = x

\* buffer.toString('hex', start, end): two hexadecimal digits per byte
RECURSIVE HexOf(_)
HexOf(bytes) ==
  IF bytes = <<>> THEN <<>>
  ELSE <<Head(bytes) \div 16, Head(bytes) % 16>> \o HexOf(Tail(bytes))

ToHex(buffer, start, end) == HexOf(SubSeq(buffer, start + 1, Min(end, Len(buffer))))

\* buffer.toString('utf8'): the decoder never throws; an ill-formed sequence
\* becomes U+FFFD (65533), one per maximal subpart.  One-, two- and
\* three-byte forms are decoded; the inputs hold no four-byte lead.
IsCont(b) == b >= 128 /\ b <= 191

RECURSIVE Utf8Decode(_)
Utf8Decode(b) ==
  IF b = <<>> THEN <<>>
  ELSE LET b1 == b[1] IN
    IF b1 < 128 THEN <<b1>> \o Utf8Decode(Tail(b))
    ELSE IF b1 >= 194 /\ b1 <= 223
      THEN IF Len(b) >= 2 /\ IsCont(b[2])
             THEN <<(b1 % 32) * 64 + (b[2] % 64)>> \o Utf8Decode(SubSeq(b, 3, Len(b)))
             ELSE <<65533>> \o Utf8Decode(Tail(b))
    ELSE IF b1 >= 224 /\ b1 <= 239
      THEN LET lo == IF b1 = 224 THEN 160 ELSE 128
               hi == IF b1 = 237 THEN 159 ELSE 191
           IN IF Len(b) >= 2 /\ b[2] >= lo /\ b[2] <= hi
                THEN IF Len(b) >= 3 /\ IsCont(b[3])
                       THEN <<(b1 % 16) * 4096 + (b[2] % 64) * 64 + (b[3] % 64)>>
                              \o Utf8Decode(SubSeq(b, 4, Len(b)))
                       ELSE <<65533>> \o Utf8Decode(SubSeq(b, 3, Len(b)))
                ELSE <<65533>> \o Utf8Decode(Tail(b))
    ELSE <<65533>> \o Utf8Decode(Tail(b))

\* buffer.toString('utf8', start, end)
ToUtf8(buffer, start, end) == Utf8Decode(SubSeq(buffer, start + 1, Min(end, Len(buffer))))

\* the characters kept by text.replace(/[^\x20-\x7E\n\r\t]/g, '')
IsPrintable(c) == (c >= 32 /\ c <= 126) \/ c = 10 \/ c = 13 \/ c = 9

\* the characters kept by .replace(/[^\x20-\x7E\n\r]/g, '')
IsPreviewChar(c) == (c >= 32 /\ c <= 126) \/ c = 10 \/ c = 13

\* text.split('\n').length
SplitLines(text) == 1 + Len(SelectSeq(text, LAMBDA c : c = 10))

\* String.prototype.toLowerCase on the letters file names are made of
LowerChar(c) ==
  CASE c = "P" -> "p" [] c = "D" -> "d" [] c = "F" -> "f" [] c = "T" -> "t"
    [] c = "X" -> "x" [] c = "H" -> "h" [] c = "M" -> "m" [] c = "L" -> "l"
    [] c = "O" -> "o" [] c = "C" -> "c" [] c = "A" -> "a" [] c = "B" -> "b"
    [] OTHER -> c

ToLowerCase(s) == [i \in 1..Len(s) |-> LowerChar(s[i])]

\* path.extname on a name without directory part: from the last '.' to the
\* end, '' when there is no '.' or when the only '.' is the first character
LastDot(name) ==
  IF \E i \in 1..Len(name) : name[i] = "."
    THEN CHOOSE i \in 1..Len(name) :
           name[i] = "." /\ \A j \in (i + 1)..Len(name) : name[j] # "."
    ELSE 0

ExtName(name) ==
  IF LastDot(name) <= 1 THEN <<>> ELSE SubSeq(name, LastDot(name), Len(name))

(***************************************************************************)
(* detectFileType                                                          *)
(***************************************************************************)
\* printableRatio > 0.8; the ratio of an empty text is 0/0 = NaN and the
\* comparison of NaN is false
PrintableRatioAbove80(text) ==
  Len(text) > 0 /\ 5 * Len(SelectSeq(text, IsPrintable)) > 4 * Len(text)

detectFileType(buffer, fileName) ==
  LET magic == ToHex(buffer, 0, 8)
      text == Utf8Decode(buffer)
      nullBytes == Includes(text, 0)
      ext == Tail(ToLowerCase(ExtName(fileName)))
  IN IF StartsWith(magic, MAGIC_PDF) THEN TAG_PDF
     ELSE IF StartsWith(magic, MAGIC_PNG) \/ StartsWith(magic, MAGIC_JPEG)
       THEN TAG_IMAGE
     ELSE IF StartsWith(magic, MAGIC_DOC) \/ StartsWith(magic, MAGIC_ZIP)
       THEN TAG_DOCUMENT
     ELSE IF ~nullBytes /\ PrintableRatioAbove80(text) THEN TAG_TEXT
     ELSE IF fileName # <<>> /\ ExtName(fileName) # <<>>
             /\ Includes(ALLOWED_FILE_TYPES, ext)
       THEN ext
     ELSE TAG_UNKNOWN

(***************************************************************************)
(* processBuffer                                                           *)
(***************************************************************************)
\* A text built by concatenation is kept as its three parts: a literal
\* head, the characters taken from the buffer, a literal tail.
PDF_NOTICE == "PDF file detected. For enhanced text extraction with OCR and formatting preservation, use the dedicated resume parser service.\n\nPreview (first 1000 bytes):\n"
TRUNCATION_NOTICE == "\n\n[Content truncated due to size limits]"

MkText(head, chars, tail) == [head |-> head, chars |-> chars, tail |-> tail]

\* fileName || fallback
OrElse(name, fallback) == IF name # <<>> THEN name ELSE fallback

DOCUMENT_PDF == <<"d","o","c","u","m","e","n","t",".","p","d","f">>
TEXT_TXT == <<"t","e","x","t",".","t","x","t">>

\* case 'pdf'
PdfHandler(buffer, fileName, fileSize) ==
  LET textPreview == SelectSeq(ToUtf8(buffer, 0, PREVIEW_BYTES), IsPreviewChar)
  IN [success |-> TRUE, type |-> TAG_PDF,
      fileName |-> OrElse(fileName, DOCUMENT_PDF),
      text |-> MkText(PDF_NOTICE, textPreview, ""),
      metadata |-> [fileSize |-> fileSize, pages |-> 1,
                    textPreviewLength |-> Len(textPreview)],
      hint |-> "Upgrade to full PDF parsing service for complete text extraction"]

\* the text handler with the comparison >= in place of >
TextHandler_TruncatesAtLimit(buffer, fileName, fileSize, fileType) ==
  LET text == Utf8Decode(buffer)
  IN IF Len(text) >= MAX_TEXT_LENGTH
       THEN [success |-> TRUE, type |-> fileType,
             fileName |-> OrElse(fileName, TEXT_TXT),
             text |-> MkText("", SubSeq(text, 1, MAX_TEXT_LENGTH), TRUNCATION_NOTICE),
             truncated |-> TRUE,
             originalLength |-> Len(text),
             extractedLength |-> MAX_TEXT_LENGTH]
       ELSE [success |-> TRUE, type |-> fileType,
             fileName |-> OrElse(fileName, TEXT_TXT),
             text |-> MkText("", text, ""),
             metadata |-> [fileSize |-> fileSize, textLength |-> Len(text),
                           lines |-> SplitLines(text)]]

\* case 'text', 'txt', 'html', 'htm'
TextHandler(buffer, fileName, fileSize, fileType) ==
  LET text == Utf8Decode(buffer)
  IN IF Len(text) > MAX_TEXT_LENGTH
       THEN [success |-> TRUE, type |-> fileType,
             fileName |-> OrElse(fileName, TEXT_TXT),
             text |-> MkText("", SubSeq(text, 1, MAX_TEXT_LENGTH), TRUNCATION_NOTICE),
             truncated |-> TRUE,
             originalLength |-> Len(text),
             extractedLength |-> MAX_TEXT_LENGTH]
       ELSE [success |-> TRUE, type |-> fileType,
             fileName |-> OrElse(fileName, TEXT_TXT),
             text |-> MkText("", text, ""),
             metadata |-> [fileSize |-> fileSize, textLength |-> Len(text),
                           lines |-> SplitLines(text)]]

\* case 'image'
ImageHandler ==
  [success |-> FALSE, error |-> "Image files not supported. OCR service required.",
   type |-> TAG_IMAGE,
   hint |-> "Convert image to PDF or text first, or enable OCR capabilities"]

\* case 'document'
DocumentHandler ==
  [success |-> FALSE, error |-> "Document processing requires additional services",
   type |-> TAG_DOCUMENT,
   hint |-> "Supported formats: PDF, TXT, HTML. Convert DOC/DOCX to PDF first."]

\* default
UnknownHandler ==
  [success |-> FALSE, error |-> "Unsupported file type", type |-> TAG_UNKNOWN,
   allowedTypes |-> ALLOWED_FILE_TYPES]

\* the failure of the size check; the message reports fileSize and the maximum
FileTooLarge(fileSize, fileType) ==
  [success |-> FALSE,
   error |-> [kind |-> "File too large", bytes |-> fileSize, max |-> MAX_FILE_SIZE],
   type |-> fileType]

\* the case of the switch a tag selects
HandlerOf(fileType) ==
  IF fileType = TAG_PDF THEN "pdf"
  ELSE IF fileType \in {TAG_TEXT, TAG_TXT, TAG_HTML, TAG_HTM} THEN "text"
  ELSE IF fileType = TAG_IMAGE THEN "image"
  ELSE IF fileType = TAG_DOCUMENT THEN "document"
  ELSE "default"

Dispatch(buffer, fileName, fileSize, fileType) ==
  CASE HandlerOf(fileType) = "pdf" -> PdfHandler(buffer, fileName, fileSize)
    [] HandlerOf(fileType) = "text" -> TextHandler(buffer, fileName, fileSize, fileType)
    [] HandlerOf(fileType) = "image" -> ImageHandler
    [] HandlerOf(fileType) = "document" -> DocumentHandler
    [] OTHER -> UnknownHandler

\* processBuffer without the size check
processBufferRun_NoSizeCheck(buffer, fileName) ==
  LET fileType == detectFileType(buffer, fileName)
      fileSize == Len(buffer)
  IN [steps |-> <<"detectFileType", HandlerOf(fileType)>>,
      result |-> Dispatch(buffer, fileName, fileSize, fileType)]

\* processBuffer with the steps it executes, in the order of execution
processBufferRun(buffer, fileName) ==
  LET fileType == detectFileType(buffer, fileName)
      fileSize == Len(buffer)
  IN IF fileSize > MAX_FILE_SIZE
       THEN [steps |-> <<"detectFileType", "sizeCheck">>,
             result |-> FileTooLarge(fileSize, fileType)]
       ELSE [steps |-> <<"detectFileType", "sizeCheck", HandlerOf(fileType)>>,
             result |-> Dispatch(buffer, fileName, fileSize, fileType)]

processBuffer(buffer, fileName) == processBufferRun(buffer, fileName).result

(***************************************************************************)
(* Inputs                                                                  *)
(***************************************************************************)
\* NUL, LF, FF, 'A', and the two bytes of U+00E9
TailBytes == {0, 10, 12, 65, 195, 169}

SeqsUpTo(S, n) == UNION {[1..k -> S] : k \in 0..n}

Headers ==
  { <<>>, <<37, 80, 68, 70>>, <<37, 80, 68>>, <<137, 80, 78, 71>>, <<255, 216>>,
    <<208, 207, 17, 224>>, <<80, 75, 3, 4>> }

Pad(n) == [i \in 1..n |-> 65]

Buffers ==
  {h \o t \o Pad(n) : h \in Headers, t \in SeqsUpTo(TailBytes, MaxTail), n \in 0..MaxPad}

FileNames ==
  { <<>>, <<"a",".","p","d","f">>, <<"a",".","T","X","T">>, <<"a",".","b","i","n">>,
    <<"a",".","d","o","c","x">>, <<".","h","t","m">>, <<"a",".">> }

\* the buffers requests carry: a header, at most one more byte, a padding
ReqTailBytes == {0, 10}
ReqPads == {0, MAX_TEXT_LENGTH + 1, MAX_FILE_SIZE + 1}

ReqBuffers ==
  {h \o t \o Pad(n) : h \in Headers, t \in SeqsUpTo(ReqTailBytes, 1), n \in ReqPads}

(***************************************************************************)
(* rateLimit                                                               *)
(***************************************************************************)
\* the keys the store can hold
IPs == {"a", "unknown"}

\* req.headers['x-forwarded-for'] || req.connection.remoteAddress || 'unknown'
ClientIP(r) ==
  IF r.xff # "" THEN r.xff
  ELSE IF r.remoteAddress # "" THEN r.remoteAddress
  ELSE "unknown"

\* the quotient rounded down
CeilDiv_Floor(n, d) == n \div d

\* Math.ceil(n / d) for d > 0
CeilDiv(n, d) == IF n % d = 0 THEN n \div d ELSE (n \div d) + 1

\* no timestamp is removed
CleanOld_KeepsAll(store, windowStart) == store

\* timestamps.filter(timestamp => timestamp > windowStart), for every entry
CleanOld(store, windowStart) ==
  [ip \in DOMAIN store |-> SelectSeq(store[ip], LAMBDA ts : ts > windowStart)]

\* rateLimit with the comparison > in place of >=
rateLimit_OffByOne(store, r, t) ==
  LET clientIP == ClientIP(r)
      cleaned == CleanOld(store, t - RATE_LIMIT_WINDOW_MS)
      clientTimestamps == cleaned[clientIP]
  IN IF Len(clientTimestamps) > RATE_LIMIT_MAX_REQUESTS
       THEN [admitted |-> FALSE, store |-> cleaned,
             response |-> [status |-> 429,
                           body |-> [error |-> "Rate limit exceeded",
                                     retryAfter |-> CeilDiv(clientTimestamps[1]
                                                 + RATE_LIMIT_WINDOW_MS - t, 1000)]]]
       ELSE [admitted |-> TRUE,
             store |-> [cleaned EXCEPT ![clientIP] = Append(clientTimestamps, t)]]

\* rateLimit(req, res) at time t: whether the request is admitted, the store
\* it leaves and, when it denies, the response it sends
rateLimit(store, r, t) ==
  LET clientIP == ClientIP(r)
      windowStart == t - RATE_LIMIT_WINDOW_MS
      cleaned == CleanOld(store, windowStart)
      clientTimestamps == cleaned[clientIP]
      requestsInWindow == Len(clientTimestamps)
  IN IF requestsInWindow >= RATE_LIMIT_MAX_REQUESTS
       THEN [admitted |-> FALSE, store |-> cleaned,
             response |-> [status |-> 429,
                           body |-> [error |-> "Rate limit exceeded",
                                     retryAfter |-> CeilDiv(clientTimestamps[1]
                                                 + RATE_LIMIT_WINDOW_MS - t, 1000)]]]
       ELSE [admitted |-> TRUE,
             store |-> [cleaned EXCEPT ![clientIP] = Append(clientTimestamps, t)]]

(***************************************************************************)
(* authenticateAPIKey                                                      *)
(***************************************************************************)
\* A header value is a sequence of tokens, <<>> when the header is absent.
\* String.prototype.replace(token, ''): the first occurrence is removed
RemoveFirst(s, token) ==
  IF Includes(s, token)
    THEN LET i == CHOOSE k \in 1..Len(s) : s[k] = token /\ \A j \in 1..(k - 1) : s[j] # token
         IN SubSeq(s, 1, i - 1) \o SubSeq(s, i + 1, Len(s))
    ELSE s

\* the key is read from the X-API-Key header only
authenticateAPIKey_XApiKeyOnly(r, requireAuth) ==
  IF requireAuth /\ r.xApiKey = <<>>
    THEN [valid |-> FALSE, error |-> "API key required"]
    ELSE [valid |-> TRUE]

authenticateAPIKey(r, requireAuth) ==
  LET apiKey == IF r.xApiKey # <<>> THEN r.xApiKey
                ELSE RemoveFirst(r.authorization, "Bearer ")
  IN IF requireAuth /\ apiKey = <<>>
       THEN [valid |-> FALSE, error |-> "API key required"]
       ELSE [valid |-> TRUE]

(***************************************************************************)
(* setSecurityHeaders and handleCORS                                       *)
(***************************************************************************)
\* An origin and an entry of the allow-list are sequences of characters.
HTTPS == <<"h","t","t","p","s",":","/","/">>
HTTP == <<"h","t","t","p",":","/","/">>
N8N_IO == <<"n","8","n",".","i","o">>
LOCALHOST == <<"l","o","c","a","l","h","o","s","t">>
PORT_3000 == <<":","3","0","0","0">>
PORT_5678 == <<":","5","6","7","8">>

ALLOWED_ORIGINS ==
  << HTTPS \o <<"*", ".">> \o N8N_IO,
     HTTPS \o N8N_IO,
     HTTP \o LOCALHOST \o PORT_3000,
     HTTP \o LOCALHOST \o PORT_5678 >>

\* String.prototype.includes(sub)
IncludesString(s, sub) ==
  \E i \in 1..(Len(s) - Len(sub) + 1) : SubSeq(s, i, i + Len(sub) - 1) = sub

SecurityHeaders ==
  ("X-Content-Type-Options" :> "nosniff")
    @@ ("X-Frame-Options" :> "DENY")
    @@ ("X-XSS-Protection" :> "1; mode=block")
    @@ ("Strict-Transport-Security" :> "max-age=31536000; includeSubDomains")

\* the predicate of ALLOWED_ORIGINS.some; origin is [kind |-> "absent"] when
\* the request has no Origin header
OriginAllowed(allowed, origin) ==
  IF Includes(allowed, "*")
    THEN origin.kind = "string" /\ IncludesString(origin.value, RemoveFirst(allowed, "*"))
    ELSE origin.kind = "string" /\ origin.value = allowed

\* the headers handleCORS sets
handleCORS(r) ==
  (IF \E i \in 1..Len(ALLOWED_ORIGINS) : OriginAllowed(ALLOWED_ORIGINS[i], r.origin)
     THEN ("Access-Control-Allow-Origin" :> r.origin.value)
     ELSE <<>>)
    @@ ("Access-Control-Allow-Methods" :> "POST, OPTIONS")
    @@ ("Access-Control-Allow-Headers" :> "Content-Type, Authorization, X-API-Key")
    @@ ("Access-Control-Max-Age" :> "86400")

(***************************************************************************)
(* Intake                                                                  *)
(***************************************************************************)
\* Buffer.from(string, 'base64') and its inverse; a base64 string is the
\* sequence of its six-bit digits
RECURSIVE Base64Decode(_)
Base64Decode(d) ==
  IF Len(d) >= 4
    THEN << d[1] * 4 + d[2] \div 16, (d[2] % 16) * 16 + d[3] \div 4, (d[3] % 4) * 64 + d[4] >>
           \o Base64Decode(SubSeq(d, 5, Len(d)))
  ELSE IF Len(d) = 3 THEN << d[1] * 4 + d[2] \div 16, (d[2] % 16) * 16 + d[3] \div 4 >>
  ELSE IF Len(d) = 2 THEN << d[1] * 4 + d[2] \div 16 >>
  ELSE <<>>

RECURSIVE Base64Encode(_)
Base64Encode(b) ==
  IF Len(b) >= 3
    THEN << b[1] \div 4, (b[1] % 4) * 16 + b[2] \div 16, (b[2] % 16) * 4 + b[3] \div 64, b[3] % 64 >>
           \o Base64Encode(SubSeq(b, 4, Len(b)))
  ELSE IF Len(b) = 2 THEN << b[1] \div 4, (b[1] % 4) * 16 + b[2] \div 16, (b[2] % 16) * 4 >>
  ELSE IF Len(b) = 1 THEN << b[1] \div 4, (b[1] % 4) * 16 >>
  ELSE <<>>

\* Buffer.from(array): every element is taken modulo 256
BufferFromArray(a) == [i \in 1..Len(a) |-> a[i] % 256]

\* path.basename of a URL: its last segment
BaseName(url) == url.segments[Len(url.segments)]

UPLOADED_FILE == <<"u","p","l","o","a","d","e","d","_","f","i","l","e">>
N8N_UPLOAD == <<"n","8","n","_","u","p","l","o","a","d">>

\* A value of the JSON body: kind is "absent" for a missing key, "empty" for
\* '', "null", "number", "string" (value: the string) or "object"
\* the test is the presence of the key
Truthy_KeyPresent(v) == v.kind # "absent"

Truthy(v) == v.kind \notin {"absent", "empty", "null"}

Absent == [kind |-> "absent"]

\* body.fileName || fallback
BodyFileName(body, fallback) ==
  IF Truthy(body.fileName) THEN body.fileName.value ELSE fallback

\* the synchronous part of downloadFileFromUrl: new URL(url), the protocol
\* check and https.get, which throws for a URL that is not https
DownloadStart(v) ==
  IF v.kind # "string" \/ v.value.scheme = "invalid" THEN [ok |-> FALSE, message |-> [kind |-> "Invalid URL"]]
  ELSE IF v.value.scheme \notin {"http", "https"}
    THEN [ok |-> FALSE, message |-> [kind |-> "Invalid URL protocol"]]
  ELSE IF v.value.scheme # "https"
    THEN [ok |-> FALSE,
          message |-> [kind |-> "Protocol \"http:\" not supported. Expected \"https:\""]]
  ELSE [ok |-> TRUE]

\* files.file?.[0] || files.resume?.[0] || files.document?.[0]
UploadedFile(files) ==
  IF "file" \in DOMAIN files THEN files["file"]
  ELSE IF "resume" \in DOMAIN files THEN files["resume"]
  ELSE IF "document" \in DOMAIN files THEN files["document"]
  ELSE [none |-> TRUE]

IntakeFail(message, steps) == [kind |-> "fail", error |-> message, steps |-> steps]
IntakeOk(buf, name, steps) == [kind |-> "ok", buffer |-> buf, fileName |-> name, steps |-> steps]
IntakeThrow(steps) == [kind |-> "throw", steps |-> steps]

\* the multipart branch: formidable rejects a file above maxFileSize
MultipartIntake(r) ==
  IF r.streamError \/ \E f \in DOMAIN r.files : Len(r.files[f].content) > MAX_FILE_SIZE
    THEN IntakeThrow(<<"multipart">>)
  ELSE LET uploadedFile == UploadedFile(r.files)
       IN IF "none" \in DOMAIN uploadedFile
            THEN IntakeFail("No file uploaded. Supported fields: 'file', 'resume', 'document'",
                            <<"multipart">>)
            ELSE IntakeOk(uploadedFile.content, uploadedFile.originalFilename, <<"multipart">>)

\* the JSON branch, up to the point where the download starts
JsonIntake(r) ==
  LET body == r.body
  IN IF r.streamError THEN IntakeThrow(<<"readBody">>)
     ELSE IF body.kind = "invalid" THEN IntakeFail("Invalid JSON body", <<"readBody", "JSON.parse">>)
     ELSE IF body.kind = "null" THEN IntakeThrow(<<"readBody", "JSON.parse">>)
     ELSE IF body.kind # "object"
       THEN IntakeFail("Missing file data. Provide fileUrl, fileBase64, or binaryData",
                       <<"readBody", "JSON.parse">>)
     ELSE IF Truthy(body.fileUrl)
       THEN IF DownloadStart(body.fileUrl).ok
              THEN [kind |-> "download", url |-> body.fileUrl.value,
                    steps |-> <<"readBody", "JSON.parse", "downloadFileFromUrl">>]
              ELSE IntakeFail([kind |-> "URL download failed",
                               message |-> DownloadStart(body.fileUrl).message],
                              <<"readBody", "JSON.parse", "downloadFileFromUrl">>)
     ELSE IF Truthy(body.fileBase64)
       THEN IF body.fileBase64.kind = "string"
              THEN IntakeOk(Base64Decode(body.fileBase64.value),
                            BodyFileName(body, UPLOADED_FILE),
                            <<"readBody", "JSON.parse", "fileBase64">>)
              ELSE IntakeFail("Invalid base64 encoding", <<"readBody", "JSON.parse", "fileBase64">>)
     ELSE IF Truthy(body.binaryData)
       THEN IF body.binaryData.kind = "object" /\ "data" \in DOMAIN body.binaryData.value
              THEN IntakeOk(BufferFromArray(body.binaryData.value.data),
                            BodyFileName(body, N8N_UPLOAD),
                            <<"readBody", "JSON.parse", "binaryData">>)
              ELSE IntakeFail("Invalid binary data", <<"readBody", "JSON.parse", "binaryData">>)
     ELSE IntakeFail("Missing file data. Provide fileUrl, fileBase64, or binaryData",
                     <<"readBody", "JSON.parse">>)

\* contentType.includes('multipart/form-data')
Intake(r) == IF r.multipart THEN MultipartIntake(r) ELSE JsonIntake(r)

(***************************************************************************)
(* logRequest and the envelopes                                            *)
(***************************************************************************)
\* JSON.stringify drops the keys whose value is undefined
Defined(rec, keys) == [k \in (keys \cap DOMAIN rec) |-> rec[k]]

Rename(rec, from, to) == IF from \in DOMAIN rec THEN (to :> rec[from]) ELSE <<>>

\* the entry logRequest writes for result
LogEntry(r, result, startTime, t) ==
  [ip |-> ClientIP(r), method |-> r.method, duration |-> t - startTime,
   fileSize |-> IF "metadata" \in DOMAIN result THEN result.metadata.fileSize ELSE 0]
    @@ Defined(result, {"success"})
    @@ Rename(result, "type", "fileType")
    @@ (IF "error" \in DOMAIN result THEN [error |-> result.error] ELSE [error |-> "null"])

\* the success envelope of the handler
SuccessEnvelope(result, startTime, t) ==
  [success |-> TRUE,
   data |-> [extractedText |-> result.text, fileName |-> result.fileName,
             fileType |-> result.type,
             metadata |-> IF "metadata" \in DOMAIN result THEN result.metadata ELSE <<>>,
             truncated |-> IF "truncated" \in DOMAIN result THEN result.truncated ELSE FALSE],
   executionTime |-> t - startTime]

\* the error envelope of the handler
\* the error envelope with the message only
ErrorEnvelope_MessageOnly(result, startTime, t) ==
  [success |-> FALSE,
   error |-> Rename(result, "error", "message"),
   executionTime |-> t - startTime]

ErrorEnvelope(result, startTime, t) ==
  [success |-> FALSE,
   error |-> Rename(result, "error", "message")
               @@ Defined(result, {"type", "hint", "allowedTypes"}),
   executionTime |-> t - startTime]

\* lines 446-478: processBuffer, logRequest, the response
ProcessAndSend(r, buf, name, startTime, t) ==
  LET prun == processBufferRun(buf, name)
      result == prun.result
  IN [steps |-> <<"processBuffer">> \o prun.steps,
      logs |-> <<LogEntry(r, result, startTime, t)>>,
      responses |-> IF result.success
                      THEN <<[status |-> 200, body |-> SuccessEnvelope(result, startTime, t)]>>
                      ELSE <<[status |-> 400, body |-> ErrorEnvelope(result, startTime, t)]>>]

\* lines 480-491
InternalError(r, startTime, t) ==
  LET result == [success |-> FALSE, error |-> "Internal server error"]
  IN [logs |-> <<LogEntry(r, result, startTime, t)>>,
      responses |-> <<[status |-> 500, body |-> result]>>]

(***************************************************************************)
(* Requests                                                                *)
(***************************************************************************)
StrV(x) == [kind |-> "string", value |-> x]

NAME_PDF == <<"a",".","p","d","f">>
NAME_TXT == <<"a",".","T","X","T">>

EmptyObject == [kind |-> "object", fileUrl |-> Absent, fileBase64 |-> Absent,
                binaryData |-> Absent, fileName |-> Absent]

BodyNames == {Absent, [kind |-> "empty"], StrV(NAME_PDF), StrV(NAME_TXT)}

Urls ==
  { [scheme |-> "invalid", segments |-> <<<<"x">>>>],
    [scheme |-> "ftp", segments |-> <<<<"h">>, NAME_PDF>>],
    [scheme |-> "http", segments |-> <<<<"h">>, NAME_PDF>>],
    [scheme |-> "https", segments |-> <<<<"h">>, NAME_PDF>>],
    [scheme |-> "https", segments |-> <<<<"h">>>>] }

HttpsUrl == [scheme |-> "https", segments |-> <<<<"h">>, NAME_PDF>>]

Base64Bodies ==
  {[EmptyObject EXCEPT !.fileBase64 = v, !.fileName = n] :
     v \in {StrV(Base64Encode(b)) : b \in ReqBuffers}
             \cup {[kind |-> "empty"], [kind |-> "number"]},
     n \in BodyNames}

BinaryBodies ==
  {[EmptyObject EXCEPT !.binaryData = v] :
     v \in {[kind |-> "object", value |-> [data |-> b]] : b \in ReqBuffers \cup {<<293, 80, 68, 70>>}}
             \cup {[kind |-> "null"], [kind |-> "string"],
                   [kind |-> "object", value |-> [other |-> 0]]}}

UrlBodies ==
  {[EmptyObject EXCEPT !.fileUrl = v] :
     v \in {StrV(u) : u \in Urls} \cup {[kind |-> "empty"], [kind |-> "number"]}}

\* bodies that carry more than one of the three keys
MixedBodies ==
  {[EmptyObject EXCEPT !.fileUrl = u, !.fileBase64 = b, !.binaryData = d] :
     u \in {Absent, [kind |-> "empty"], StrV(HttpsUrl), [kind |-> "number"]},
     b \in {Absent, [kind |-> "number"], StrV(Base64Encode(<<65>>))},
     d \in {Absent, [kind |-> "null"], [kind |-> "object", value |-> [data |-> <<10>>]]}}

JsonBodies ==
  {[kind |-> "invalid"], [kind |-> "null"], [kind |-> "number"]}
    \cup Base64Bodies \cup BinaryBodies \cup UrlBodies \cup MixedBodies

File(content, name) == [content |-> content, originalFilename |-> name]

NoFiles == <<>>

Uploads ==
  {("file" :> File(b, n)) : b \in ReqBuffers, n \in {<<>>, NAME_TXT}}
    \cup { NoFiles,
           ("other" :> File(<<65>>, NAME_TXT)),
           ("resume" :> File(<<65>>, NAME_TXT)),
           ("document" :> File(<<37, 80, 68, 70>>, NAME_PDF)),
           ("resume" :> File(<<65>>, NAME_TXT)) @@ ("file" :> File(<<137, 80, 78, 71>>, <<>>)),
           ("document" :> File(<<65>>, NAME_TXT)) @@ ("resume" :> File(<<255, 216>>, <<>>)) }

SimpleBody == [EmptyObject EXCEPT !.fileBase64 = StrV(Base64Encode(<<65, 10, 65>>))]

BaseRequest ==
  [method |-> "POST", xff |-> "a", remoteAddress |-> "b", xApiKey |-> <<"k">>,
   authorization |-> <<>>, origin |-> StrV(HTTPS \o N8N_IO), multipart |-> FALSE,
   streamError |-> FALSE, files |-> NoFiles, body |-> SimpleBody]

\* requests that differ in what the checks before the intake read
GateRequests ==
  {[BaseRequest EXCEPT !.method = m, !.xff = c[1], !.remoteAddress = c[2],
                       !.xApiKey = k, !.authorization = au, !.body = b] :
     m \in {"POST", "OPTIONS", "GET"}, c \in {<<"a", "b">>, <<"", "a">>, <<"", "">>},
     k \in {<<>>, <<"k">>},
     au \in {<<>>, <<"Bearer ">>, <<"Bearer ", "k">>, <<"k">>},
     b \in {SimpleBody, [kind |-> "invalid"]}}

\* the Origin headers: none, the entries of the allow-list, subdomains and
\* other hosts
Origins ==
  {Absent} \cup
  {StrV(sc \o sub \o h \o t) :
     sc \in {HTTPS, HTTP}, sub \in {<<>>, <<"a", ".">>, <<".">>, <<"*", ".">>},
     h \in {N8N_IO, LOCALHOST, <<"e", ".", "c">>},
     t \in {<<>>, PORT_3000, PORT_5678, <<".", "e">>}}

\* requests that differ in what handleCORS reads
CorsRequests ==
  {[BaseRequest EXCEPT !.method = m, !.origin = o] :
     m \in {"POST", "OPTIONS"}, o \in Origins}

\* requests that differ in what the intake reads
IntakeRequests ==
  {[BaseRequest EXCEPT !.body = b] : b \in JsonBodies}
    \cup {[BaseRequest EXCEPT !.multipart = TRUE, !.files = f] : f \in Uploads}
    \cup {[BaseRequest EXCEPT !.streamError = TRUE, !.multipart = m] : m \in BOOLEAN}

\* what the remote server sends
Chunks == { <<37, 80, 68, 70>>, <<65, 10>>, <<0>> }
Statuses == {200, 204, 404}

(***************************************************************************)
(* State                                                                   *)
(***************************************************************************)
TickMs == 500
MaxTicks == 4

VARIABLES
  now,             \* Date.now()
  rateLimitStore,  \* client -> the timestamps of its admitted requests
  requireAuth,     \* process.env.REQUIRE_API_KEY === 'true'
  pc,              \* "idle", "downloading" while the handler awaits the download, "done"
  req,             \* the request being handled, or the last one handled
  startTime,       \* its time of entry
  trace,           \* the steps executed for it, in order
  logs,            \* the entries logRequest wrote for it
  responses,       \* the responses sent for it
  dl,              \* the download of downloadFileFromUrl
  buffer,          \* the buffer handed to processBuffer
  fileName,        \* and its file name
  run,             \* the steps and the result of processBuffer
  headers,         \* the headers set on the response
  admitted         \* history: client -> the times at which rateLimit admitted it

vars == <<now, rateLimitStore, requireAuth, pc, req, startTime, trace, logs,
          responses, dl, buffer, fileName, run, headers, admitted>>

NoRun == [steps |-> <<>>]
NoReq == [method |-> "none"]
NoDownload == [phase |-> "idle", settled |-> "none", chunks |-> <<>>, totalSize |-> 0,
               destroyed |-> FALSE, timedOut |-> FALSE, rejectCalls |-> 0, resolveCalls |-> 0]

Init ==
  /\ now = 0
  /\ rateLimitStore = [ip \in IPs |-> <<>>]
  /\ requireAuth \in BOOLEAN
  /\ pc = "idle"
  /\ req = NoReq
  /\ startTime = 0
  /\ trace = <<>>
  /\ logs = <<>>
  /\ responses = <<>>
  /\ dl = NoDownload
  /\ buffer = <<>>
  /\ fileName = <<>>
  /\ run = NoRun
  /\ headers = <<>>
  /\ admitted = [ip \in IPs |-> <<>>]

(***************************************************************************)
(* handler                                                                 *)
(***************************************************************************)
\* the method checks without the method validation
MethodGate_NoValidation(r) == IF r.method = "OPTIONS" THEN "preflight" ELSE "pass"

\* lines 338-348: the preflight and the method validation
MethodGate(r) ==
  IF r.method = "OPTIONS" THEN "preflight"
  ELSE IF r.method # "POST" THEN "reject"
  ELSE "pass"

\* the handler with the key checked before the rate limit
HandlerEntry_AuthFirst(r, store, auth, t) ==
  LET pre == <<"setSecurityHeaders", "handleCORS">>
      rl == rateLimit(store, r, t)
      au == authenticateAPIKey(r, auth)
      in == Intake(r)
      done(steps, lgs, resps, st) ==
        [next |-> "done", steps |-> steps, logs |-> lgs, responses |-> resps,
         store |-> st, called |-> FALSE]
      fail(message) == [success |-> FALSE, error |-> message]
  IN IF MethodGate(r) = "preflight"
       THEN done(pre, <<>>, <<[status |-> 200, body |-> <<>>]>>, store)
     ELSE IF MethodGate(r) = "reject"
       THEN done(pre, <<LogEntry(r, fail("Method not allowed. Only POST requests accepted."), t, t)>>,
                 <<[status |-> 405,
                    body |-> [error |-> "Method not allowed. Only POST requests accepted."]]>>,
                 store)
     ELSE IF ~au.valid
       THEN done(pre \o <<"authenticateAPIKey">>,
                 <<LogEntry(r, fail(au.error), t, t)>>,
                 <<[status |-> 401, body |-> [error |-> au.error]]>>, store)
     ELSE IF ~rl.admitted
       THEN done(pre \o <<"authenticateAPIKey", "rateLimit">>,
                 <<LogEntry(r, fail("Rate limit exceeded"), t, t)>>,
                 <<rl.response>>, rl.store)
     ELSE LET steps == pre \o <<"rateLimit", "authenticateAPIKey">> \o in.steps
          IN CASE in.kind = "fail" ->
                    done(steps, <<LogEntry(r, fail(in.error), t, t)>>,
                         <<[status |-> 400, body |-> [error |-> in.error]]>>, rl.store)
               [] in.kind = "throw" ->
                    done(steps, InternalError(r, t, t).logs, InternalError(r, t, t).responses,
                         rl.store)
               [] in.kind = "download" ->
                    [next |-> "downloading", steps |-> steps, logs |-> <<>>,
                     responses |-> <<>>, store |-> rl.store, called |-> FALSE,
                     fileName |-> BaseName(in.url)]
               [] in.kind = "ok" ->
                    LET ps == ProcessAndSend(r, in.buffer, in.fileName, t, t)
                    IN [next |-> "done", steps |-> steps \o ps.steps, logs |-> ps.logs,
                        responses |-> ps.responses, store |-> rl.store, called |-> TRUE,
                        buffer |-> in.buffer, fileName |-> in.fileName]

\* the handler from its entry to its end or to the await of the download
HandlerEntry(r, store, auth, t) ==
  LET pre == <<"setSecurityHeaders", "handleCORS">>
      rl == rateLimit(store, r, t)
      au == authenticateAPIKey(r, auth)
      in == Intake(r)
      done(steps, lgs, resps, st) ==
        [next |-> "done", steps |-> steps, logs |-> lgs, responses |-> resps,
         store |-> st, called |-> FALSE]
      fail(message) == [success |-> FALSE, error |-> message]
  IN IF MethodGate(r) = "preflight"
       THEN done(pre, <<>>, <<[status |-> 200, body |-> <<>>]>>, store)
     ELSE IF MethodGate(r) = "reject"
       THEN done(pre, <<LogEntry(r, fail("Method not allowed. Only POST requests accepted."), t, t)>>,
                 <<[status |-> 405,
                    body |-> [error |-> "Method not allowed. Only POST requests accepted."]]>>,
                 store)
     ELSE IF ~rl.admitted
       THEN done(pre \o <<"rateLimit">>,
                 <<LogEntry(r, fail("Rate limit exceeded"), t, t)>>,
                 <<rl.response>>, rl.store)
     ELSE IF ~au.valid
       THEN done(pre \o <<"rateLimit", "authenticateAPIKey">>,
                 <<LogEntry(r, fail(au.error), t, t)>>,
                 <<[status |-> 401, body |-> [error |-> au.error]]>>, rl.store)
     ELSE LET steps == pre \o <<"rateLimit", "authenticateAPIKey">> \o in.steps
          IN CASE in.kind = "fail" ->
                    done(steps, <<LogEntry(r, fail(in.error), t, t)>>,
                         <<[status |-> 400, body |-> [error |-> in.error]]>>, rl.store)
               [] in.kind = "throw" ->
                    done(steps, InternalError(r, t, t).logs, InternalError(r, t, t).responses,
                         rl.store)
               [] in.kind = "download" ->
                    [next |-> "downloading", steps |-> steps, logs |-> <<>>,
                     responses |-> <<>>, store |-> rl.store, called |-> FALSE,
                     fileName |-> BaseName(in.url)]
               [] in.kind = "ok" ->
                    LET ps == ProcessAndSend(r, in.buffer, in.fileName, t, t)
                    IN [next |-> "done", steps |-> steps \o ps.steps, logs |-> ps.logs,
                        responses |-> ps.responses, store |-> rl.store, called |-> TRUE,
                        buffer |-> in.buffer, fileName |-> in.fileName]

Arrive(r) ==
  /\ pc = "idle"
  /\ LET h == HandlerEntry(r, rateLimitStore, requireAuth, now)
     IN /\ pc' = h.next
        /\ rateLimitStore' = h.store
        /\ trace' = h.steps
        /\ logs' = h.logs
        /\ responses' = h.responses
        /\ buffer' = IF h.called THEN h.buffer ELSE <<>>
        /\ fileName' = IF "fileName" \in DOMAIN h THEN h.fileName ELSE <<>>
        /\ run' = IF h.called THEN processBufferRun(h.buffer, h.fileName) ELSE NoRun
        /\ dl' = IF h.next = "downloading"
                   THEN [NoDownload EXCEPT !.phase = "connecting", !.settled = "pending"]
                   ELSE NoDownload
  /\ req' = r
  /\ headers' = SecurityHeaders @@ handleCORS(r)
  /\ startTime' = now
  /\ admitted' = IF MethodGate(r) = "pass" /\ rateLimit(rateLimitStore, r, now).admitted
                   THEN [admitted EXCEPT ![ClientIP(r)] = Append(@, now)]
                   ELSE admitted
  /\ UNCHANGED <<now, requireAuth>>

\* the handler has returned: the request and what was kept of it are dropped
Return ==
  /\ pc = "done"
  /\ pc' = "idle"
  /\ req' = NoReq
  /\ startTime' = 0
  /\ trace' = <<>>
  /\ logs' = <<>>
  /\ responses' = <<>>
  /\ dl' = NoDownload
  /\ buffer' = <<>>
  /\ fileName' = <<>>
  /\ run' = NoRun
  /\ headers' = <<>>
  /\ UNCHANGED <<now, rateLimitStore, requireAuth, admitted>>

\* the clock advances
Tick ==
  /\ pc # "done"
  /\ now + TickMs <= MaxTicks * TickMs
  /\ now' = now + TickMs
  /\ UNCHANGED <<rateLimitStore, requireAuth, pc, req, startTime, trace, logs,
                 responses, dl, buffer, fileName, run, headers, admitted>>

(***************************************************************************)
(* downloadFileFromUrl: the events of the request and of the response      *)
(***************************************************************************)
\* The promise settles at the first call of resolve or reject; the handler
\* then resumes: with a buffer it goes on to processBuffer, with an error it
\* answers 'URL download failed'.
Resolved(d, value) ==
  [d EXCEPT !.resolveCalls = @ + 1,
            !.settled = IF d.settled = "pending" THEN "resolved" ELSE @]

Rejected(d, error) ==
  [d EXCEPT !.rejectCalls = @ + 1,
            !.settled = IF d.settled = "pending" THEN "rejected" ELSE @]

\* the handler after the await, lines 413-419 and 446-478
ResumeResolved(value) ==
  LET ps == ProcessAndSend(req, value, fileName, startTime, now)
  IN /\ pc' = "done"
     /\ trace' = trace \o ps.steps
     /\ logs' = logs \o ps.logs
     /\ responses' = responses \o ps.responses
     /\ buffer' = value
     /\ run' = processBufferRun(value, fileName)
     /\ UNCHANGED fileName

ResumeRejected(error) ==
  LET message == [kind |-> "URL download failed", message |-> error]
  IN /\ pc' = "done"
     /\ logs' = logs \o <<LogEntry(req, [success |-> FALSE, error |-> message], startTime, now)>>
     /\ responses' = responses \o <<[status |-> 400, body |-> [error |-> message]]>>
     /\ UNCHANGED <<trace, buffer, fileName, run>>

\* reject(error) from an event handler
Reject(d, error) ==
  /\ dl' = Rejected(d, error)
  /\ IF dl.settled = "pending"
       THEN ResumeRejected(error)
       ELSE UNCHANGED <<pc, trace, logs, responses, buffer, fileName, run>>

\* resolve(value) from an event handler
Resolve(d, value) ==
  /\ dl' = Resolved(d, value)
  /\ IF dl.settled = "pending"
       THEN ResumeResolved(value)
       ELSE UNCHANGED <<pc, trace, logs, responses, buffer, fileName, run>>

DlFrame ==
  UNCHANGED <<now, rateLimitStore, requireAuth, req, startTime, headers, admitted>>

\* the callback of https.get
DlResponse(status) ==
  /\ dl.phase = "connecting"
  /\ IF status # 200
       THEN Reject([dl EXCEPT !.phase = "unread"], [kind |-> "HTTP", status |-> status])
       ELSE /\ dl' = [dl EXCEPT !.phase = "streaming"]
            /\ UNCHANGED <<pc, trace, logs, responses, buffer, fileName, run>>
  /\ DlFrame

\* response.on('data')
DlData(chunk) ==
  /\ dl.phase = "streaming"
  /\ LET totalSize == dl.totalSize + Len(chunk)
     IN IF totalSize > MAX_FILE_SIZE
          THEN Reject([dl EXCEPT !.totalSize = totalSize, !.destroyed = TRUE,
                                 !.phase = "closed"],
                      [kind |-> "File too large", bytes |-> totalSize])
          ELSE /\ dl' = [dl EXCEPT !.totalSize = totalSize, !.chunks = @ \o chunk]
               /\ UNCHANGED <<pc, trace, logs, responses, buffer, fileName, run>>
  /\ DlFrame

\* response.on('end')
DlEnd ==
  /\ dl.phase = "streaming"
  /\ Resolve([dl EXCEPT !.phase = "closed"], dl.chunks)
  /\ DlFrame

\* response.on('error') and the 'error' of the request
DlError ==
  /\ dl.phase \in {"connecting", "streaming", "unread"}
  /\ Reject([dl EXCEPT !.phase = "closed"], [kind |-> "socket error"])
  /\ DlFrame

\* the 'timeout' of the request: the socket was idle; nothing is destroyed
DlTimeout ==
  /\ dl.phase \in {"connecting", "streaming", "unread"}
  /\ ~dl.timedOut
  /\ Reject([dl EXCEPT !.timedOut = TRUE], [kind |-> "Request timeout"])
  /\ DlFrame

\* requests of every method, client and key, as the clock advances
Next ==
  \/ \E r \in GateRequests : Arrive(r)
  \/ Return
  \/ Tick

Spec == Init /\ [][Next]_vars

\* requests of every transport and content from one client; the clock
\* advances while a download is awaited
NextIntake ==
  \/ \E r \in IntakeRequests : Arrive(r)
  \/ Return
  \/ (pc = "downloading" /\ Tick)
  \/ \E status \in Statuses : DlResponse(status)
  \/ \E chunk \in Chunks : DlData(chunk)
  \/ DlEnd
  \/ DlError
  \/ DlTimeout

SpecIntake == Init /\ [][NextIntake]_vars

\* requests of every origin from one client
NextCORS ==
  \/ \E r \in CorsRequests : Arrive(r)
  \/ Return
  \/ Tick

SpecCORS == Init /\ [][NextCORS]_vars

(***************************************************************************)
(* processBuffer applied to every buffer and file name                     *)
(***************************************************************************)
InitBuffer ==
  /\ buffer \in Buffers
  /\ fileName \in FileNames
  /\ run = NoRun
  /\ now = 0
  /\ rateLimitStore = [ip \in IPs |-> <<>>]
  /\ requireAuth = FALSE
  /\ pc = "idle"
  /\ req = NoReq
  /\ startTime = 0
  /\ trace = <<>>
  /\ logs = <<>>
  /\ responses = <<>>
  /\ dl = NoDownload
  /\ headers = <<>>
  /\ admitted = [ip \in IPs |-> <<>>]

Process ==
  /\ run = NoRun
  /\ run' = processBufferRun(buffer, fileName)
  /\ UNCHANGED <<now, rateLimitStore, requireAuth, pc, req, startTime, trace, logs,
                 responses, dl, buffer, fileName, headers, admitted>>

NextBuffer == Process

SpecBuffer == InitBuffer /\ [][NextBuffer]_vars

(***************************************************************************)
(* Properties                                                              *)
(***************************************************************************)
Times == {k * TickMs : k \in 0..MaxTicks}

\* the number of admissions of ip in the window that ends at t
AdmittedInWindow(ip, t) ==
  Cardinality({i \in 1..Len(admitted[ip]) :
                 admitted[ip][i] > t - RATE_LIMIT_WINDOW_MS /\ admitted[ip][i] <= t})

GateSteps == <<"setSecurityHeaders", "handleCORS", "rateLimit">>

\* C1: a client is admitted by rateLimit at most RATE_LIMIT_MAX_REQUESTS times
\* within any window of RATE_LIMIT_WINDOW_MS, and a POST that arrives while
\* its client has that many admissions in the current window is answered 429
\* with a numeric retryAfter and runs no step after rateLimit.
C1_WindowQuota == \A ip \in IPs : \A t \in Times : AdmittedInWindow(ip, t) <= RATE_LIMIT_MAX_REQUESTS

C1_DeniedWhenFull ==
  (pc = "idle" /\ pc' # "idle" /\ req'.method = "POST"
     /\ AdmittedInWindow(ClientIP(req'), now) >= RATE_LIMIT_MAX_REQUESTS)
    => /\ pc' = "done"
       /\ Len(responses') = 1
       /\ responses'[1].status = 429
       /\ responses'[1].body.retryAfter \in Int
       /\ trace' = GateSteps
       /\ run' = NoRun

C1_RateLimit == []C1_WindowQuota /\ [][C1_DeniedWhenFull]_vars

C1_Witness ==
  /\ pc = "done"
  /\ Len(responses) = 1
  /\ responses[1].status = 429
  /\ AdmittedInWindow(ClientIP(req), now) = RATE_LIMIT_MAX_REQUESTS

\* the body parses as JSON and supplies none of fileUrl, fileBase64, binaryData
NoFileData(body) ==
  \/ body.kind \in {"null", "number"}
  \/ /\ body.kind = "object"
     /\ ~Truthy(body.fileUrl) /\ ~Truthy(body.fileBase64) /\ ~Truthy(body.binaryData)

\* C2: a non-multipart request whose body parses as JSON and supplies none of
\* fileUrl, fileBase64, binaryData is answered with the 400 'Missing file
\* data' error, never with the 500 response.
C2_MissingFileData ==
  (pc = "done" /\ Includes(trace, "JSON.parse") /\ NoFileData(req.body))
    => responses = <<[status |-> 400,
                      body |-> [error |-> "Missing file data. Provide fileUrl, fileBase64, or binaryData"]]>>

\* C3: when the buffer handed to processBuffer is longer than MAX_FILE_SIZE,
\* the classifier detectFileType is not executed on it.
C3_SizeBeforeClassification ==
  (run # NoRun /\ Len(buffer) > MAX_FILE_SIZE) => ~Includes(run.steps, "detectFileType")

\* C4: on a buffer longer than MAX_FILE_SIZE no per-type handler runs:
\* processBuffer returns a failure that says 'too large' and reports the
\* byte count, and the response is the 400 error envelope.
C4_NoHandlerOnOversize ==
  (run # NoRun /\ Len(buffer) > MAX_FILE_SIZE)
    => /\ \A i \in 1..Len(run.steps) : run.steps[i] \in {"detectFileType", "sizeCheck"}
       /\ run.result.success = FALSE
       /\ run.result.error.kind = "File too large"
       /\ run.result.error.bytes = Len(buffer)
       /\ pc = "done"
       /\ Len(responses) = 1
       /\ responses[1].status = 400
       /\ responses[1].body.success = FALSE
       /\ responses[1].body.error.message = run.result.error

C4_Witness ==
  /\ pc = "done"
  /\ Len(buffer) > MAX_FILE_SIZE
  /\ run # NoRun
  /\ run.result.type = TAG_PDF
  /\ Len(responses) = 1

\* C5: when the cumulative size of the chunks of a download exceeds
\* MAX_FILE_SIZE, the download never resolves with a buffer, no success
\* envelope is sent, and the error returned is 'File too large' with the
\* bytes received so far.
C5_StreamingOverflow ==
  (dl.totalSize > MAX_FILE_SIZE)
    => /\ dl.settled # "resolved"
       /\ \A i \in 1..Len(responses) : responses[i].status # 200
       /\ pc = "done"
       /\ Len(responses) = 1
       /\ responses[1].status = 400
       /\ responses[1].body.error.kind = "URL download failed"
       /\ responses[1].body.error.message.kind = "File too large"
       /\ responses[1].body.error.message.bytes = dl.totalSize

\* C6: a buffer within the size limit that starts with 25 50 44 46 ends in a
\* 200 success envelope with fileType 'pdf', a populated preview,
\* metadata.pages 1 and a hint in the envelope.
C6_PdfEnvelope ==
  (pc = "done" /\ run # NoRun /\ Len(buffer) <= MAX_FILE_SIZE
     /\ StartsWith(buffer, <<37, 80, 68, 70>>))
    => /\ Len(responses) = 1
       /\ responses[1].status = 200
       /\ responses[1].body.success = TRUE
       /\ responses[1].body.data.fileType = TAG_PDF
       /\ responses[1].body.data.extractedText.chars # <<>>
       /\ responses[1].body.data.metadata.pages = 1
       /\ ("hint" \in DOMAIN responses[1].body \/ "hint" \in DOMAIN responses[1].body.data)

\* C7: the text handler returns the decoded input unchanged, without
\* truncated and with lines = 1 + the number of '\n', when the decoded length
\* is at most MAX_TEXT_LENGTH; otherwise the first MAX_TEXT_LENGTH characters
\* followed by the truncation notice, truncated = true, originalLength the
\* decoded length and extractedLength = MAX_TEXT_LENGTH.
C7_TextHandler ==
  (run # NoRun /\ Len(run.steps) = 3 /\ run.steps[3] = "text")
    => LET text == Utf8Decode(buffer)
           result == run.result
       IN IF Len(text) <= MAX_TEXT_LENGTH
            THEN /\ result.text.head = "" /\ result.text.tail = ""
                 /\ result.text.chars = text
                 /\ "truncated" \notin DOMAIN result
                 /\ result.metadata.lines = 1 + Cardinality({i \in 1..Len(text) : text[i] = 10})
            ELSE /\ result.text.head = ""
                 /\ Len(result.text.chars) = MAX_TEXT_LENGTH
                 /\ \A i \in 1..MAX_TEXT_LENGTH : result.text.chars[i] = text[i]
                 /\ result.text.tail = "\n\n[Content truncated due to size limits]"
                 /\ result.truncated = TRUE
                 /\ result.originalLength = Len(text)
                 /\ result.extractedLength = MAX_TEXT_LENGTH

C7_Witness ==
  /\ run # NoRun
  /\ Len(run.steps) = 3
  /\ run.steps[3] = "text"
  /\ Len(Utf8Decode(buffer)) = MAX_TEXT_LENGTH + 1
  /\ \E i \in 1..Len(buffer) : buffer[i] = 10

\* printable ASCII, or one of the ASCII whitespace characters
IsAsciiTextByte(b) == (b >= 32 /\ b <= 126) \/ b \in {9, 10, 11, 12, 13}

HasSignature(b) ==
  \E m \in {MAGIC_PDF, MAGIC_PNG, MAGIC_JPEG, MAGIC_DOC, MAGIC_ZIP} : StartsWith(HexOf(b), m)

\* C8: a buffer that matches no signature and consists only of printable
\* ASCII or whitespace characters, of any length, is classified 'text'
\* whatever the file name is.
C8_PrintableIsText ==
  (run # NoRun /\ ~HasSignature(buffer) /\ \A i \in 1..Len(buffer) : IsAsciiTextByte(buffer[i]))
    => run.result.type = TAG_TEXT

\* C9: every response the handler sends carries executionTime.
C9_ExecutionTimeAlways ==
  pc = "done" => \A i \in 1..Len(responses) : "executionTime" \in DOMAIN responses[i].body

\* C10: every request produces exactly one log entry and exactly one response.
C10_OneLogOneResponse ==
  pc = "done" => (Len(logs) = 1 /\ Len(responses) = 1)

\* C11: a request whose method is neither POST nor OPTIONS is answered 405;
\* the rate-limit store is left unchanged, no authentication, intake,
\* classification or handler step runs, and its log entry has no file type.
C11_Step ==
  (pc = "idle" /\ pc' # "idle" /\ req'.method \notin {"POST", "OPTIONS"})
    => /\ pc' = "done"
       /\ Len(responses') = 1
       /\ responses'[1].status = 405
       /\ rateLimitStore' = rateLimitStore
       /\ admitted' = admitted
       /\ trace' = <<"setSecurityHeaders", "handleCORS">>
       /\ run' = NoRun
       /\ dl' = NoDownload
       /\ Len(logs') = 1
       /\ "fileType" \notin DOMAIN logs'[1]

C11_MethodNotAllowed == [][C11_Step]_vars

C11_Witness ==
  /\ pc = "done"
  /\ req.method = "GET"
  /\ Len(responses) = 1
  /\ responses[1].status = 405
  /\ rateLimitStore["a"] # <<>>

\* the request carries no X-API-Key header and no non-empty key in Authorization
NoKey(r) == r.xApiKey = <<>> /\ r.authorization \in {<<>>, <<"Bearer ">>}

AnsweredWith(status) ==
  pc = "done" /\ Len(responses) = 1 /\ responses[1].status = status

C12_Rejected ==
  /\ AnsweredWith(401)
  /\ trace = <<"setSecurityHeaders", "handleCORS", "rateLimit", "authenticateAPIKey">>
  /\ run = NoRun
  /\ buffer = <<>>

TransportsOf(steps) ==
  SelectSeq(steps, LAMBDA x : x \in {"downloadFileFromUrl", "fileBase64", "binaryData"})

\* the request went through the JSON branch and its body is a JSON object
JsonObjectRequest ==
  /\ pc \in {"done", "downloading"}
  /\ Includes(trace, "JSON.parse")
  /\ ~req.multipart
  /\ ~req.streamError
  /\ req.body.kind = "object"

KeyPresent(v) == v.kind # "absent"

HasValue(v) == v.kind \in {"string", "number", "object"}

SubdomainOf(origin, pattern) ==
  \E i \in 1..Len(pattern) :
    /\ pattern[i] = "*"
    /\ LET before == SubSeq(pattern, 1, i - 1)
           after == SubSeq(pattern, i + 1, Len(pattern))
           labels == SubSeq(origin, Len(before) + 1, Len(origin) - Len(after))
       IN /\ Len(origin) > Len(before) + Len(after)
          /\ SubSeq(origin, 1, Len(before)) = before
          /\ SubSeq(origin, Len(origin) - Len(after) + 1, Len(origin)) = after
          /\ \A k \in 1..Len(labels) : labels[k] \notin {"/", ":", "*"}
          /\ labels[1] # "."
          /\ labels[Len(labels)] # "."

\* the origin is on the allow-list: a literal entry, or a subdomain of a
\* wildcard entry
OnAllowList(origin) ==
  /\ origin.kind = "string"
  /\ \E i \in 1..Len(ALLOWED_ORIGINS) :
       IF Includes(ALLOWED_ORIGINS[i], "*")
         THEN SubdomainOf(origin.value, ALLOWED_ORIGINS[i])
         ELSE origin.value = ALLOWED_ORIGINS[i]

\* C14: handleCORS sets Access-Control-Allow-Origin, to the request's Origin,
\* exactly when the origin equals a literal entry of the allow-list or is a
\* subdomain matched by a wildcard entry; for every other origin, and
\* without an Origin header, the header is not set.
C14_CorsEcho ==
  (pc = "done") =>
    IF OnAllowList(req.origin)
      THEN /\ "Access-Control-Allow-Origin" \in DOMAIN headers
           /\ headers["Access-Control-Allow-Origin"] = req.origin.value
      ELSE "Access-Control-Allow-Origin" \notin DOMAIN headers

\* processBuffer ran on a buffer within the size limit that the classifier
\* tags tag
Classified(tag) ==
  /\ pc = "done"
  /\ run # NoRun
  /\ Len(buffer) <= MAX_FILE_SIZE
  /\ detectFileType(buffer, fileName) = tag

\* C15: a buffer within the size limit that the classifier tags image,
\* document or unknown is answered with one 400 error envelope: success is
\* false, error.type is the tag, and the envelope carries the hint of the tag
\* (image: the OCR hint; document: the supported formats; unknown: the list
\* of allowed extensions).
C15_PolicyRejections ==
  \A tag \in {TAG_IMAGE, TAG_DOCUMENT, TAG_UNKNOWN} :
    Classified(tag) =>
      /\ Len(responses) = 1
      /\ responses[1].status = 400
      /\ responses[1].body.success = FALSE
      /\ "type" \in DOMAIN responses[1].body.error
      /\ responses[1].body.error.type = tag
      /\ tag = TAG_IMAGE =>
            /\ "hint" \in DOMAIN responses[1].body.error
            /\ responses[1].body.error.hint
                 = "Convert image to PDF or text first, or enable OCR capabilities"
      /\ tag = TAG_DOCUMENT =>
            /\ "hint" \in DOMAIN responses[1].body.error
            /\ responses[1].body.error.hint
                 = "Supported formats: PDF, TXT, HTML. Convert DOC/DOCX to PDF first."
      /\ tag = TAG_UNKNOWN =>
            /\ "allowedTypes" \in DOMAIN responses[1].body.error
            /\ responses[1].body.error.allowedTypes = ALLOWED_FILE_TYPES

C15_Witness ==
  /\ Classified(TAG_IMAGE)
  /\ responses[1].status = 400
  /\ responses[1].body.error.type = TAG_IMAGE
  /\ "hint" \in DOMAIN responses[1].body.error

\* the times in the window that ends at t at which ip was admitted
InWindow(ip, t) ==
  {admitted[ip][i] : i \in {k \in 1..Len(admitted[ip]) :
                              admitted[ip][k] > t - RATE_LIMIT_WINDOW_MS}}

\* C16: when rateLimit denies a request, retryAfter is the time until the
\* oldest timestamp of that client in the current window leaves the window,
\* rounded up to whole seconds; it is at least 1 and at most
\* RATE_LIMIT_WINDOW_MS / 1000.
C16_RetryAfter ==
  AnsweredWith(429) =>
    LET ip == ClientIP(req)
        retryAfter == responses[1].body.retryAfter
    IN /\ InWindow(ip, now) # {}
       /\ \E oldest \in InWindow(ip, now) :
            /\ \A ts \in InWindow(ip, now) : oldest <= ts
            /\ 1000 * (retryAfter - 1) < oldest + RATE_LIMIT_WINDOW_MS - now
            /\ oldest + RATE_LIMIT_WINDOW_MS - now <= 1000 * retryAfter
       /\ retryAfter \in 1..(RATE_LIMIT_WINDOW_MS \div 1000)

\* a denial whose oldest timestamp leaves the window in less than a second,
\* while the newest one stays for longer
C16_Witness ==
  /\ AnsweredWith(429)
  /\ responses[1].body.retryAfter = 1
  /\ \E ts \in InWindow(ClientIP(req), now) : ts + RATE_LIMIT_WINDOW_MS - now > 1000
  /\ \E ts \in InWindow(ClientIP(req), now) : (ts + RATE_LIMIT_WINDOW_MS - now) % 1000 # 0

DeclaredTags ==
  {TAG_PDF, TAG_TEXT, TAG_TXT, TAG_HTML, TAG_HTM, TAG_IMAGE, TAG_DOCUMENT, TAG_UNKNOWN}

\* C17: for every buffer and file name detectFileType returns one of the
\* tags pdf, text, txt, html, htm, image, document, unknown, also when the
\* tag comes from the extension of the file name, and the type of the result
\* of processBuffer is that tag.
C17_DeclaredTag ==
  (run # NoRun) =>
    /\ detectFileType(buffer, fileName) \in DeclaredTags
    /\ run.result.type = detectFileType(buffer, fileName)

\* the download failed with a timeout, a status other than 200 or an overflow
DownloadAborted ==
  /\ dl.settled = "rejected"
  /\ pc = "done"
  /\ responses[1].body.error.message.kind \in {"Request timeout", "HTTP", "File too large"}

\* C18: when the download fails on a timeout, on a status that is not 2xx or
\* on a size overflow, the transfer in flight is destroyed, the promise is
\* rejected and stays rejected, and no later data or end event produces a
\* buffer, a partial result or another response.
C18_AbortedOutright ==
  DownloadAborted =>
    /\ dl.destroyed
    /\ dl.phase = "closed"
    /\ Len(responses) = 1
    /\ responses[1].status = 400
    /\ run = NoRun
    /\ buffer = <<>>

\* the timestamps of a store that are not older than the window at time t
Unexpired(timestamps, t) ==
  SelectSeq(timestamps, LAMBDA ts : ts > t - RATE_LIMIT_WINDOW_MS)

\* a denial leaves in the store what was there and has not expired, and
\* records nothing
C19_DenialOnlyPrunes ==
  (pc = "idle" /\ AnsweredWith(429)') =>
    /\ \A ip \in IPs : rateLimitStore'[ip] = Unexpired(rateLimitStore[ip], now)
    /\ admitted' = admitted

\* a POST of a client whose oldest recorded timestamp has left the window,
\* being RATE_LIMIT_WINDOW_MS old or older, is admitted
C19_AdmittedAgain ==
  (/\ pc = "idle" /\ pc' # "idle" /\ req'.method = "POST"
   /\ rateLimitStore[ClientIP(req')] # <<>>
   /\ now - rateLimitStore[ClientIP(req')][1] >= RATE_LIMIT_WINDOW_MS) =>
    /\ ~AnsweredWith(429)'
    /\ Includes(trace', "authenticateAPIKey")
    /\ Includes(rateLimitStore'[ClientIP(req')], now)

\* C19: a request denied with 429 is not recorded and changes the store only
\* by pruning expired timestamps, so a limited client is admitted again as
\* soon as its oldest recorded timestamp is older than RATE_LIMIT_WINDOW_MS,
\* however many denied requests it has sent.
C19_DeniedNotRecorded == [][C19_DenialOnlyPrunes /\ C19_AdmittedAgain]_vars

\* a client that used up its quota is admitted once more, after its oldest
\* admission has left the window
C19_Witness ==
  /\ pc = "done"
  /\ req.method = "POST"
  /\ ~AnsweredWith(429)
  /\ Len(admitted[ClientIP(req)]) = RATE_LIMIT_MAX_REQUESTS + 1
  /\ admitted[ClientIP(req)][1] <= now - RATE_LIMIT_WINDOW_MS
  /\ admitted[ClientIP(req)][RATE_LIMIT_MAX_REQUESTS + 1] = now

\* a POST that passed the rate limiter and was rejected with 401 or 400 has
\* consumed a slot: its time is recorded after the gate ran first
C20_RejectedConsumesSlot ==
  (/\ pc = "idle" /\ pc' = "done" /\ req'.method = "POST"
   /\ Len(responses') = 1 /\ responses'[1].status \in {400, 401}) =>
    /\ rateLimitStore'[ClientIP(req')]
         = Append(Unexpired(rateLimitStore[ClientIP(req')], now), now)
    /\ SubSeq(trace', 1, Len(GateSteps)) = GateSteps

\* with the quota of its client used up, a POST is answered 429 whatever key
\* and file it carries, before the key and the body are looked at
C20_FullQuotaDenies ==
  (/\ pc = "idle" /\ pc' # "idle" /\ req'.method = "POST"
   /\ Len(Unexpired(rateLimitStore[ClientIP(req')], now)) >= RATE_LIMIT_MAX_REQUESTS) =>
    /\ AnsweredWith(429)'
    /\ trace' = GateSteps

\* C20: rateLimit runs before authentication and before body parsing: a POST
\* that passes the rate limiter consumes one slot of its client's quota even
\* when it is then rejected with 401 or a 400 intake error, so after
\* RATE_LIMIT_MAX_REQUESTS such POSTs in the window the client's next POST is
\* answered 429 even with a valid key and a valid file.
C20_AccountingFirst == [][C20_RejectedConsumesSlot /\ C20_FullQuotaDenies]_vars

\* a POST rejected with 401 has taken the last slot of its client
C20_Witness ==
  /\ AnsweredWith(401)
  /\ requireAuth
  /\ Len(rateLimitStore[ClientIP(req)]) = RATE_LIMIT_MAX_REQUESTS
  /\ rateLimitStore[ClientIP(req)][RATE_LIMIT_MAX_REQUESTS] = now

====
